---- MODULE Spec2Model ----
(***************************************************************************)
(* mcp-kafka: the cluster registry (mcp_kafka/core.py, class Core), the    *)
(* server lifespan (mcp_kafka/server.py), the topic facade                 *)
(* (mcp_kafka/kafka/topic.py) and the tool handlers (mcp_kafka/tools.py).  *)
(*                                                                         *)
(* A Core object is the record                                             *)
(*   [config |-> [keys, use_sse, port, clusters],                          *)
(*    kafka_admin_clients |-> <<..>>]                                      *)
(* where kafka_admin_clients is the dict self._kafka_admin_clients, kept   *)
(* as the sequence of its items in insertion order (the order Python       *)
(* iterates a dict in).  A KafkaAdminClient object is a handle: its index  *)
(* in the sequence `handles` of every client constructed so far.           *)
(* Each method is an operator from the object (and the handles) to the     *)
(* object after the call, the handles after the call and the outcome       *)
(* (a returned value or a raised exception).                               *)
(*                                                                         *)
(* config is the dict self.config: its keys, the values of 'use_sse' and   *)
(* 'port', and the definitions under 'clusters'.  A cluster definition (a  *)
(* ClusterConfig) is represented by the type of its ssl attribute,         *)
(* "SSLConfig" or "dict" (the declared default {}), the one thing the      *)
(* outcome of kafka_admin_client depends on.                               *)
(*                                                                         *)
(* Environment assumptions: the KafkaAdminClient constructor succeeds;     *)
(* KafkaAdminClient.close() may raise.                                     *)
(***************************************************************************)
EXTENDS Integers, Sequences, FiniteSets, TLC

\* Bound of the model: the number of KafkaAdminClient objects constructed.
MaxHandles == 3

\* Bound of the model: the number of close() calls one client receives.
MaxCloseCalls == 2

\* Bound of the model: the length of a list of topic names passed in.
MaxTopicList == 2

\* Bound of the model: the number of topic names passed to describe_topics.
MaxDescribe == 25

\* Bound of the model: the length of a text passed to parse_value.
MaxTextLen == 6

\* The characters of the texts and keys passed to parse_value.  A string
\* is the sequence of its characters.
Alphabet == {"k", "=", " ", "\"", "'", "\\"}

\* The keys passed to parse_value.
Keys == {<<"k">>, <<"k", "k">>}

\* Topic names used as arguments and on the remote cluster.
Topics == {"a", "b"}

\* The topic sets the remote cluster may start with.
RemoteTopicChoices == {{}, {"a"}, {"a", "b"}}

\* Cluster names used as arguments.
Names == {"prod", "staging", "ghost"}

\* The fields of class ClusterConfig.
ClusterConfigFields ==
    {"bootstrap_servers", "ssl", "security_protocol", "sasl_mechanism",
     "sasl_plain_username", "sasl_plain_password"}

\* The clusters_config_file argument of Core(...): none, or a path.  At the
\* path there is no file ("missing"), a YAML document whose top level is
\* not a mapping ("not a mapping": an empty file, a list, a scalar), or a
\* mapping with the top-level keys `keys`, of which those in `invalid` hold
\* a value that is not of the type ClusterConfig declares for the field
\* (bootstrap_servers: 'host:9092', a string where List[str] is declared).
ConfigFiles ==
    {[given |-> FALSE, content |-> "missing", keys |-> {}, invalid |-> {}]}
       \cup {[given |-> TRUE, content |-> c, keys |-> {}, invalid |-> {}] :
                c \in {"missing", "not a mapping"}}
       \cup UNION {{[given |-> TRUE, content |-> "mapping", keys |-> K, invalid |-> I] :
                       I \in SUBSET (K \cap ClusterConfigFields)} :
                    K \in {{"clusters"}, {"bootstrap_servers"},
                           {"clusters", "bootstrap_servers"},
                           {"bootstrap_servers", "ssl"}}}

\* The values of the port argument of Core(...); the first is the default.
Ports == {8888, 9000}

\* The keyword arguments of Core(**configs): the keys that are not keys of
\* DEFAULT_CONFIG, and the values of the three that are.
CoreConfigs ==
    {[extra_configs |-> e, use_sse |-> s, port |-> p, clusters_config_file |-> f] :
        e \in {{}, {"clusters"}}, s \in BOOLEAN, p \in Ports, f \in ConfigFiles}

\* Callers of Core.kafka_admin_client running in separate threads; tasks
\* of the event loop running tool handlers.
Threads == {"t1", "t2"}

VARIABLES core, handles, phase, lastOp, remote, pc, tname, tlocal, tret, parse,
          topic_core

vars == <<core, handles, phase, lastOp, remote, pc, tname, tlocal, tret, parse,
         topic_core>>

----------------------------------------------------------------------------
(* Outcomes of a call *)

\* kind: "return" or "raise"; exc: the exception's class; handle: the client
\* returned; value: the class of any other value returned; codes: the
\* (topic, error_code) pairs of a response; fields: the keys of a dict;
\* batches: the name lists of the remote describe calls the call made.
NoOut ==
    [kind |-> "none", exc |-> "", handle |-> 0, value |-> "", codes |-> <<>>,
     fields |-> {}, batches |-> <<>>]

Return(h) == [NoOut EXCEPT !.kind = "return", !.handle = h]

ReturnValue(v, codes) == [NoOut EXCEPT !.kind = "return", !.value = v, !.codes = codes]

ReturnDict(fields) == [NoOut EXCEPT !.kind = "return", !.value = "dict", !.fields = fields]

Raise(e) == [NoOut EXCEPT !.kind = "raise", !.exc = e]

\* A coroutine suspended at an await.
Await == [NoOut EXCEPT !.kind = "await"]

----------------------------------------------------------------------------
(* dict operations on self._kafka_admin_clients *)

DictKeys(d) == {d[i].name : i \in DOMAIN d}

DictGet(d, k) == d[CHOOSE i \in DOMAIN d : d[i].name = k].handle

\* d[k] = v: an existing key keeps its place and takes the new value.
DictSet(d, k, v) ==
    IF k \in DictKeys(d)
    THEN [i \in DOMAIN d |-> IF d[i].name = k THEN [name |-> k, handle |-> v] ELSE d[i]]
    ELSE Append(d, [name |-> k, handle |-> v])

----------------------------------------------------------------------------
(* class Core *)

\* No definitions.
NoDefinitions == [n \in {} |-> "dict"]

\* Core.DEFAULT_CONFIG: use_sse False, port 8888, clusters_config_file ''.
DEFAULT_CONFIG ==
    [keys |-> {"use_sse", "port", "clusters_config_file"},
     use_sse |-> FALSE, port |-> 8888, clusters |-> NoDefinitions]

\* Core._parse_config_file: open(file_path), yaml.safe_load, then
\* ClusterConfig(**config) on the file's top-level keys.  bootstrap_servers
\* is a required field, every field's value is validated against its
\* declared type, and keys that are not fields are ignored.
parse_config_file(file) ==
    IF file.content = "missing"
    THEN Raise("FileNotFoundError")
    ELSE IF file.content = "not a mapping"
    THEN Raise("TypeError")
    ELSE IF "bootstrap_servers" \notin file.keys \/ file.invalid # {}
    THEN Raise("ValidationError")
    ELSE ReturnValue("ClusterConfig", <<>>)

\* Core.__init__(**configs).  Keys outside DEFAULT_CONFIG raise KeyError
\* (lines 93-95).  self.config is a copy of DEFAULT_CONFIG updated with the
\* configs.  With a file, line 99 parses it into a ClusterConfig and line
\* 100 reads its attribute `clusters`, which ClusterConfig does not have: no
\* call leaves the key 'clusters' in self.config.
Core_init(configs) ==
    LET config == [DEFAULT_CONFIG EXCEPT !.use_sse = configs.use_sse,
                                         !.port = configs.port]
        self == [config |-> config, kafka_admin_clients |-> <<>>]
    IN  IF configs.extra_configs # {}
        THEN [self |-> self, out |-> Raise("KeyError")]
        ELSE IF ~configs.clusters_config_file.given
        THEN [self |-> self, out |-> ReturnValue("Core", <<>>)]
        ELSE LET clusters_config == parse_config_file(configs.clusters_config_file)
             IN  [self |-> self,
                  out |-> IF clusters_config.kind = "raise"
                          THEN clusters_config
                          ELSE Raise("AttributeError")]

\* Core.clusters
clusters(self) ==
    IF "clusters" \in self.config.keys THEN DOMAIN self.config.clusters ELSE {}

\* get_cluster_config without its two checks: a definition for any name.
get_cluster_config_unchecked(self, cluster_name) ==
    ReturnValue("SSLConfig", <<>>)

\* Core.get_cluster_config: returns the definition.
get_cluster_config(self, cluster_name) ==
    IF "clusters" \notin self.config.keys
    THEN Raise("KeyError")
    ELSE IF cluster_name \notin DOMAIN self.config.clusters
         THEN Raise("KeyError")
         ELSE ReturnValue(self.config.clusters[cluster_name], <<>>)

\* kafka_config = dict(..., ssl_cafile=config.ssl.ca_file, ...): reading
\* ca_file on the default ssl value, a dict, raises AttributeError.
kafka_config(config) ==
    IF config.value # "SSLConfig"
    THEN Raise("AttributeError")
    ELSE ReturnValue("dict", <<>>)

\* KafkaAdminClient(**kafka_config): a new open client for the cluster.
NewClient(hs, cluster_name) ==
    Append(hs, [name |-> cluster_name, closeCalls |-> 0])

\* Core.kafka_admin_client, run without interruption.
kafka_admin_client(self, hs, cluster_name) ==
    IF cluster_name \notin DictKeys(self.kafka_admin_clients)
    THEN LET config == get_cluster_config(self, cluster_name)
         IN  IF config.kind = "raise"
             THEN [self |-> self, handles |-> hs, out |-> config]
             ELSE IF kafka_config(config).kind = "raise"
             THEN [self |-> self, handles |-> hs, out |-> kafka_config(config)]
             ELSE LET hs2 == NewClient(hs, cluster_name)
                      self2 == [self EXCEPT !.kafka_admin_clients =
                                   DictSet(@, cluster_name, Len(hs2))]
                  IN  [self |-> self2, handles |-> hs2,
                       out |-> Return(DictGet(self2.kafka_admin_clients, cluster_name))]
    ELSE [self |-> self, handles |-> hs,
          out |-> Return(DictGet(self.kafka_admin_clients, cluster_name))]

\* Index of the first item whose client's close() raises, 0 when none does.
FirstFailing(d, failing) ==
    IF \E i \in DOMAIN d : d[i].handle \in failing
    THEN CHOOSE i \in DOMAIN d :
            /\ d[i].handle \in failing
            /\ \A j \in 1..(i - 1) : d[j].handle \notin failing
    ELSE 0

\* admin_client.close() invoked on the clients of items 1..k of d.
CloseInvoked(hs, d, k) ==
    [h \in DOMAIN hs |->
        IF \E i \in 1..k : d[i].handle = h
        THEN [hs[h] EXCEPT !.closeCalls = @ + 1]
        ELSE hs[h]]

\* close without the final clear(): the closed clients stay cached.
close_without_clear(self, hs, failing) ==
    LET d == self.kafka_admin_clients
        k == FirstFailing(d, failing)
    IN  [self |-> self,
         handles |-> CloseInvoked(hs, d, IF k = 0 THEN Len(d) ELSE k),
         out |-> IF k = 0 THEN Return(0) ELSE Raise("Exception")]

\* close that resets self.config to DEFAULT_CONFIG along with the cache.
close_clearing_config(self, hs, failing) ==
    LET d == self.kafka_admin_clients
        k == FirstFailing(d, failing)
    IN  IF k = 0
        THEN [self |-> [self EXCEPT !.kafka_admin_clients = <<>>,
                                    !.config = DEFAULT_CONFIG],
              handles |-> CloseInvoked(hs, d, Len(d)),
              out |-> Return(0)]
        ELSE [self |-> self,
              handles |-> CloseInvoked(hs, d, k),
              out |-> Raise("Exception")]

\* Core.close; `failing` is the set of clients whose close() raises.
close(self, hs, failing) ==
    LET d == self.kafka_admin_clients
        k == FirstFailing(d, failing)
    IN  IF k = 0
        THEN [self |-> [self EXCEPT !.kafka_admin_clients = <<>>],
              handles |-> CloseInvoked(hs, d, Len(d)),
              out |-> Return(0)]
        ELSE [self |-> self,
              handles |-> CloseInvoked(hs, d, k),
              out |-> Raise("Exception")]

----------------------------------------------------------------------------
(* Attribute access.  The facades KafkaTopic and KafkaConsumer reach the    *)
(* client as self._core.kafka_admin_client.<method>(...).                   *)

\* The methods of a kafka.KafkaAdminClient object that the facades call.
ClientMethods ==
    {"list_topics", "create_topics", "describe_topics", "describe_configs",
     "delete_topics", "alter_configs", "describe_cluster", "list_consumer_groups",
     "list_consumer_group_offsets", "describe_consumer_groups",
     "delete_consumer_groups"}

\* The value of the attribute core.kafka_admin_client: Core defines it with
\* a plain def taking cluster_name (no @property), so it is a bound method.
core_kafka_admin_client == [type |-> "method"]

\* Whether obj.attr exists: a bound method has none of a client's methods,
\* and looking one up on it raises AttributeError.
HasAttr(obj, attr) == obj.type = "KafkaAdminClient" /\ attr \in ClientMethods

\* The core argument of KafkaTopic(core): a Core object.
CoreObject == [kafka_admin_client |-> core_kafka_admin_client]

----------------------------------------------------------------------------
(* The remote cluster: its topics, and the create and delete requests it    *)
(* has received.                                                            *)

\* KafkaAdminClient.create_topics([topic], validate_only)
RemoteCreateTopics(rem, name, validate_only) ==
    IF name \in rem.topics
    THEN [remote |-> [rem EXCEPT !.creates = @ + 1],
          out |-> Raise("TopicAlreadyExistsError")]
    ELSE [remote |-> [rem EXCEPT !.creates = @ + 1,
                                 !.topics = IF validate_only THEN @ ELSE @ \cup {name}],
          out |-> ReturnValue("CreateTopicsResponse", <<<<name, 0>>>>)]

\* KafkaAdminClient.delete_topics(topics)
RemoteDeleteTopics(rem, topics) ==
    IF \E i \in DOMAIN topics : topics[i] \notin rem.topics
    THEN [remote |-> [rem EXCEPT !.deletes = @ + 1],
          out |-> Raise("UnknownTopicOrPartitionError")]
    ELSE [remote |-> [rem EXCEPT !.deletes = @ + 1,
                                 !.topics = @ \ {topics[i] : i \in DOMAIN topics}],
          out |-> ReturnValue("DeleteTopicsResponse",
                              [i \in DOMAIN topics |-> <<topics[i], 0>>])]

\* Any other client method, which reads the cluster and changes nothing.
RemoteRead(rem, method) ==
    [remote |-> rem, out |-> ReturnValue(method, <<>>)]

\* self._core.kafka_admin_client.<method>(...) for a read-only method.
ClientRead(rem, method) ==
    IF ~HasAttr(core_kafka_admin_client, method)
    THEN [remote |-> rem, out |-> Raise("AttributeError")]
    ELSE RemoteRead(rem, method)

----------------------------------------------------------------------------
(* class KafkaTopic *)

\* KafkaTopic.create_topic
create_topic(rem, name, if_not_exists, dry_run) ==
    LET create ==
            IF ~HasAttr(core_kafka_admin_client, "create_topics")
            THEN [remote |-> rem, out |-> Raise("AttributeError")]
            ELSE RemoteCreateTopics(rem, name, dry_run)
    IN  IF if_not_exists
        THEN IF ~HasAttr(core_kafka_admin_client, "list_topics")
             THEN [remote |-> rem, out |-> Raise("AttributeError")]
             ELSE IF name \in rem.topics
                  THEN [remote |-> rem, out |-> ReturnDict({})]
                  ELSE create
        ELSE create

\* KafkaTopic.list_topics
list_topics(rem) == ClientRead(rem, "list_topics")

\* delete_topics without the dry_run branch: the request is always sent.
delete_topics_always_sent(rem, topics, dry_run) ==
    IF ~HasAttr(core_kafka_admin_client, "delete_topics")
    THEN [remote |-> rem, out |-> Raise("AttributeError")]
    ELSE RemoteDeleteTopics(rem, topics)

\* KafkaTopic.delete_topics
delete_topics(rem, topics, dry_run) ==
    IF dry_run
    THEN [remote |-> rem,
          out |-> ReturnValue("DeleteTopicsResponse_v3",
                              [i \in DOMAIN topics |-> <<topics[i], 0>>])]
    ELSE IF ~HasAttr(core_kafka_admin_client, "delete_topics")
         THEN [remote |-> rem, out |-> Raise("AttributeError")]
         ELSE RemoteDeleteTopics(rem, topics)

\* KafkaTopic.describe_topics: one remote call with the whole list.
describe_topics(rem, topics) ==
    IF ~HasAttr(core_kafka_admin_client, "describe_topics")
    THEN [remote |-> rem, out |-> Raise("AttributeError")]
    ELSE [remote |-> rem,
          out |-> [ReturnValue("list", <<>>) EXCEPT !.batches = <<topics>>]]

\* KafkaAdminClient.alter_configs([config])
RemoteAlterConfigs(rem, name) ==
    [remote |-> [rem EXCEPT !.alters = @ + 1],
     out |-> ReturnValue("AlterConfigsResponse", <<<<name, 0>>>>)]

\* KafkaTopic.alter_topic without dry_run, as the update_topic tool calls it.
alter_topic_commit(rem, name) ==
    IF ~HasAttr(core_kafka_admin_client, "alter_configs")
    THEN [remote |-> rem, out |-> Raise("AttributeError")]
    ELSE RemoteAlterConfigs(rem, name)

\* KafkaAdminClient.describe_topics(topics): a list with one dict of
\* metadata per topic asked for, on the cluster or not.
RemoteDescribeTopics(rem, topics) ==
    [i \in DOMAIN topics |->
        [type |-> "dict", topic |-> topics[i],
         error_code |-> IF topics[i] \in rem.topics THEN 0 ELSE 3]]

\* name in existing_topics: a str equals no dict of the list.
InList(name, list) ==
    \E i \in DOMAIN list : list[i].type = "str" /\ list[i].topic = name

\* KafkaTopic.alter_topic
alter_topic(rem, name, dry_run) ==
    IF dry_run
    THEN IF ~HasAttr(core_kafka_admin_client, "describe_topics")
         THEN [remote |-> rem, out |-> Raise("AttributeError")]
         ELSE LET existing_topics == RemoteDescribeTopics(rem, <<name>>)
              IN  IF ~InList(name, existing_topics)
                  THEN [remote |-> rem,
                        out |-> ReturnValue("AlterConfigsResponse_v1", <<<<name, 3>>>>)]
                  ELSE [remote |-> rem,
                        out |-> ReturnValue("AlterConfigsResponse_v1", <<<<name, 0>>>>)]
    ELSE alter_topic_commit(rem, name)

----------------------------------------------------------------------------
(* class KafkaConsumer: each method is one call on the client. *)

consumer_method(rem, method) == ClientRead(rem, method)

----------------------------------------------------------------------------
(* class KafkaCluster *)

\* KafkaCluster.__init__(self, core, cluster_name); args are the arguments
\* the caller passes after self.  A missing argument is a TypeError.
KafkaCluster_init(self, hs, args) ==
    IF Len(args) # 2
    THEN [self |-> self, handles |-> hs, out |-> Raise("TypeError")]
    ELSE kafka_admin_client(self, hs, args[2])

----------------------------------------------------------------------------
(* Tool handlers (tools.py).  Each builds its facade before the try block, *)
(* calls one facade method inside it, and returns {'data': ...}; the       *)
(* except clause awaits ctx.error(error_msg), where the coroutine is       *)
(* suspended, and then returns {'error': ...}.                             *)

ClusterTools == {"describe_cluster", "describe_broker"}

TopicTools ==
    {"create_topic", "list_topics", "describe_topics", "update_topic", "delete_topic"}

ConsumerTools ==
    {"list_consumer_groups", "list_consumer_group_offsets",
     "describe_consumer_groups", "delete_consumer_group"}

Tools == ClusterTools \cup TopicTools \cup ConsumerTools

\* The statement before the try block: the facade's construction.
ToolFacade(tool, self, hs) ==
    IF tool \in ClusterTools
    THEN KafkaCluster_init(self, hs, <<"core">>)
    ELSE [self |-> self, handles |-> hs, out |-> ReturnValue("facade", <<>>)]

\* The call inside the try block.
ToolCall(tool, rem, topic, if_not_exists) ==
    CASE tool = "describe_cluster" -> RemoteRead(rem, "describe_cluster")
      [] tool = "describe_broker" -> RemoteRead(rem, "describe_configs")
      [] tool = "create_topic" -> create_topic(rem, topic, if_not_exists, FALSE)
      [] tool = "list_topics" -> list_topics(rem)
      \* kafka_topic.describe_topics(topics, include_topic_configs): the
      \* method takes one argument.
      [] tool = "describe_topics" -> [remote |-> rem, out |-> Raise("TypeError")]
      [] tool = "update_topic" -> alter_topic_commit(rem, topic)
      [] tool = "delete_topic" -> delete_topics(rem, <<topic>>, FALSE)
      [] tool = "list_consumer_groups" -> consumer_method(rem, "list_consumer_groups")
      [] tool = "list_consumer_group_offsets" ->
             consumer_method(rem, "list_consumer_group_offsets")
      [] tool = "describe_consumer_groups" ->
             consumer_method(rem, "describe_consumer_groups")
      [] tool = "delete_consumer_group" ->
             consumer_method(rem, "delete_consumer_groups")

\* A tool handler from its first statement to its return, to the exception
\* that leaves it, or to `await ctx.error(error_msg)` in the except clause.
tool_handler(tool, self, hs, rem, topic, if_not_exists) ==
    LET facade == ToolFacade(tool, self, hs)
    IN  IF facade.out.kind = "raise"
        THEN [self |-> facade.self, handles |-> facade.handles, remote |-> rem,
              out |-> facade.out]
        ELSE LET call == ToolCall(tool, rem, topic, if_not_exists)
             IN  [self |-> facade.self, handles |-> facade.handles,
                  remote |-> call.remote,
                  out |-> IF call.out.kind = "raise"
                          THEN Await
                          ELSE ReturnDict({"data"})]

\* The handler from the await on: an exception of ctx.error leaves the
\* handler, otherwise it returns {'error': error_msg}.
tool_handler_resume(ctx_error_raises) ==
    IF ctx_error_raises THEN Raise("Exception") ELSE ReturnDict({"error"})

----------------------------------------------------------------------------
(* utils/string.py *)

\* text[i:i+len(pat)] == pat, for a 1-based i.
MatchesAt(text, pat, i) ==
    /\ i + Len(pat) - 1 <= Len(text)
    /\ \A j \in 1..Len(pat) : text[i + j - 1] = pat[j]

\* text.find(pat, start): the first position from `start` on (1-based)
\* at which pat occurs, 0 when there is none (Python's -1).
Find(text, pat, start) ==
    IF \E i \in start..Len(text) : MatchesAt(text, pat, i)
    THEN CHOOSE i \in start..Len(text) :
            /\ MatchesAt(text, pat, i)
            /\ \A j \in start..(i - 1) : ~MatchesAt(text, pat, j)
    ELSE 0

\* ch.isspace()
IsSpace(ch) == ch = " "

\* while i < len(text) and text[i].isspace(): i += 1
RECURSIVE SkipSpace(_, _)
SkipSpace(text, i) ==
    IF i <= Len(text) /\ IsSpace(text[i]) THEN SkipSpace(text, i + 1) ELSE i

\* The loop `while i < len(text)` of parse_value, from position i with the
\* characters collected so far.
RECURSIVE ScanValue(_, _, _, _)
ScanValue(text, i, quote_char, value) ==
    IF i > Len(text)
    THEN value
    ELSE IF text[i] = quote_char
         THEN IF value # <<>> /\ value[Len(value)] = "\\"
              THEN ScanValue(text, i + 1, quote_char,
                             [value EXCEPT ![Len(value)] = quote_char])
              ELSE value
         ELSE ScanValue(text, i + 1, quote_char, Append(value, text[i]))

\* quotes=('"', "'")
quotes == {"\"", "'"}

\* parse_value(key, text)
parse_value(key, text) ==
    LET key_pos == Find(text, key, 1)
    IN  IF key_pos = 0
        THEN <<>>
        ELSE LET eq_pos == Find(text, <<"=">>, key_pos + Len(key))
             IN  IF eq_pos = 0
                 THEN <<>>
                 ELSE LET i == SkipSpace(text, eq_pos + 1)
                      IN  IF i > Len(text) \/ text[i] \notin quotes
                          THEN <<>>
                          ELSE ScanValue(text, i + 1, text[i], <<>>)

----------------------------------------------------------------------------
(* State *)

\* The last call made: the method, its name argument, the flags passed as
\* True, its list argument, and its outcome.
OpF(op, name, flags, topics, out) ==
    [op |-> op, name |-> name, flags |-> flags, topics |-> topics, out |-> out]

Op(op, name, out) == OpF(op, name, {}, <<>>, out)

\* The state after core = Core(**configs) has returned.
Init ==
    /\ core \in {Core_init(configs).self :
                    configs \in {c \in CoreConfigs : Core_init(c).out.kind = "return"}}
    /\ handles = <<>>
    /\ phase = "running"
    /\ lastOp = Op("init", "", NoOut)
    /\ remote \in {[topics |-> T, creates |-> 0, deletes |-> 0, alters |-> 0] : T \in RemoteTopicChoices}
    /\ pc = [t \in Threads |-> "idle"]
    /\ tname = [t \in Threads |-> ""]
    /\ tlocal = [t \in Threads |-> 0]
    /\ tret = [t \in Threads |-> NoOut]
    /\ parse = [key |-> <<>>, text |-> <<>>, out |-> <<>>, done |-> FALSE]
    /\ topic_core = CoreObject

ThreadVars == <<pc, tname, tlocal, tret>>

\* core = Core(**configs): when the constructor raises, the assignment does
\* not happen and core stays the object it was.
Construct(configs) ==
    /\ phase = "running"
    /\ LET r == Core_init(configs)
       IN  /\ core' = IF r.out.kind = "return" THEN r.self ELSE core
           /\ lastOp' = Op("Core", "", r.out)
    /\ UNCHANGED <<parse, topic_core, handles, phase, remote, ThreadVars>>

\* A call of core.get_cluster_config(n).
GetClusterConfig(n) ==
    /\ phase = "running"
    /\ lastOp' = Op("get_cluster_config", n, get_cluster_config(core, n))
    /\ UNCHANGED <<parse, topic_core, core, handles, phase, remote, ThreadVars>>

\* A call of core.kafka_admin_client(n).
KafkaAdminClient(n) ==
    /\ phase = "running"
    /\ LET r == kafka_admin_client(core, handles, n)
       IN  /\ Len(r.handles) <= MaxHandles
           /\ core' = r.self
           /\ handles' = r.handles
           /\ lastOp' = Op("kafka_admin_client", n, r.out)
    /\ UNCHANGED <<parse, topic_core, phase, remote, ThreadVars>>

\* A call of core.close().
Close(failing) ==
    /\ phase = "running"
    /\ LET r == close(core, handles, failing)
       IN  /\ \A h \in DOMAIN r.handles : r.handles[h].closeCalls <= MaxCloseCalls
           /\ core' = r.self
           /\ handles' = r.handles
           /\ lastOp' = Op("close", "", r.out)
    /\ UNCHANGED <<parse, topic_core, phase, remote, ThreadVars>>

\* server_lifespan's finally block: core = CoreManager.get_core(); core.close().
server_lifespan(failing) ==
    /\ phase = "running"
    /\ LET r == close(core, handles, failing)
       IN  /\ \A h \in DOMAIN r.handles : r.handles[h].closeCalls <= MaxCloseCalls
           /\ core' = r.self
           /\ handles' = r.handles
           /\ lastOp' = Op("server_lifespan", "", r.out)
    /\ phase' = "stopped"
    /\ UNCHANGED <<parse, topic_core, remote, ThreadVars>>

\* A call of KafkaTopic(core).create_topic(name, ...).
CreateTopic(name, if_not_exists, dry_run) ==
    /\ phase = "running"
    /\ LET r == create_topic(remote, name, if_not_exists, dry_run)
       IN  /\ remote' = r.remote
           /\ lastOp' = OpF("create_topic", name,
                            (IF if_not_exists THEN {"if_not_exists"} ELSE {})
                               \cup (IF dry_run THEN {"dry_run"} ELSE {}),
                            <<>>, r.out)
    /\ UNCHANGED <<parse, topic_core, core, handles, phase, ThreadVars>>

\* A call of KafkaTopic(core).delete_topics(topics, dry_run).
DeleteTopics(topics, dry_run) ==
    /\ phase = "running"
    /\ LET r == delete_topics(remote, topics, dry_run)
       IN  /\ remote' = r.remote
           /\ lastOp' = OpF("delete_topics", "",
                            IF dry_run THEN {"dry_run"} ELSE {}, topics, r.out)
    /\ UNCHANGED <<parse, topic_core, core, handles, phase, ThreadVars>>

\* A call of KafkaTopic(core).alter_topic(name, configs, dry_run).
AlterTopic(name, dry_run) ==
    /\ phase = "running"
    /\ LET r == alter_topic(remote, name, dry_run)
       IN  /\ remote' = r.remote
           /\ lastOp' = OpF("alter_topic", name,
                            IF dry_run THEN {"dry_run"} ELSE {}, <<>>, r.out)
    /\ UNCHANGED <<parse, topic_core, core, handles, phase, ThreadVars>>

\* The list of n distinct topic names "1", ..., "n".
TopicNames(n) == [i \in 1..n |-> ToString(i)]

\* A call of KafkaTopic(core).describe_topics(topics) with n names.
DescribeTopics(n) ==
    /\ phase = "running"
    /\ LET r == describe_topics(remote, TopicNames(n))
       IN  /\ remote' = r.remote
           /\ lastOp' = OpF("describe_topics", "", {}, TopicNames(n), r.out)
    /\ UNCHANGED <<parse, topic_core, core, handles, phase, ThreadVars>>

\* The event loop runs the handler coroutine of task t up to its return,
\* its exception or its await.
Tool(t, tool, topic, if_not_exists) ==
    /\ phase = "running"
    /\ pc[t] = "idle"
    /\ LET r == tool_handler(tool, core, handles, remote, topic, if_not_exists)
       IN  /\ Len(r.handles) <= MaxHandles
           /\ core' = r.self
           /\ handles' = r.handles
           /\ remote' = r.remote
           /\ IF r.out.kind = "await"
              THEN /\ pc' = [pc EXCEPT ![t] = "await_ctx_error"]
                   /\ tname' = [tname EXCEPT ![t] = tool]
                   /\ lastOp' = lastOp
              ELSE /\ pc' = pc
                   /\ tname' = tname
                   /\ lastOp' = Op("tool", tool, r.out)
    /\ UNCHANGED <<parse, topic_core, phase, tlocal, tret>>

\* ctx.error(error_msg) completes and the event loop resumes task t.
ToolResume(t, ctx_error_raises) ==
    /\ pc[t] = "await_ctx_error"
    /\ pc' = [pc EXCEPT ![t] = "idle"]
    /\ lastOp' = Op("tool", tname[t], tool_handler_resume(ctx_error_raises))
    /\ UNCHANGED <<parse, topic_core, core, handles, phase, remote, tname, tlocal, tret>>

\* The lists of topic names passed to delete_topics.
TopicLists == UNION {[1..k -> Topics] : k \in 0..MaxTopicList}

Cached == {core.kafka_admin_clients[i].handle : i \in DOMAIN core.kafka_admin_clients}

Next ==
    \/ \E configs \in CoreConfigs : Construct(configs)
    \/ \E n \in Names : GetClusterConfig(n)
    \/ \E n \in Names : KafkaAdminClient(n)
    \/ \E failing \in SUBSET Cached : Close(failing)
    \/ \E failing \in SUBSET Cached : server_lifespan(failing)

\* The facades and the tool handlers at work on a registry in use.
NextTools ==
    \/ \E n \in Names : KafkaAdminClient(n)
    \/ \E name \in Topics, if_not_exists, dry_run \in BOOLEAN :
          CreateTopic(name, if_not_exists, dry_run)
    \/ \E topics \in TopicLists, dry_run \in BOOLEAN : DeleteTopics(topics, dry_run)
    \/ \E name \in Topics, dry_run \in BOOLEAN : AlterTopic(name, dry_run)
    \/ \E n \in 0..MaxDescribe : DescribeTopics(n)

SpecTools == Init /\ [][NextTools]_vars

\* The tool handlers as tasks of the server's event loop, on the registry
\* as Core(...) returned it and a cluster that holds topic "a".
InitHandlers == Init /\ core.config = DEFAULT_CONFIG /\ remote.topics = {"a"}

NextHandlers ==
    \/ \E t \in Threads, tool \in Tools, topic \in Topics, if_not_exists \in BOOLEAN :
          Tool(t, tool, topic, if_not_exists)
    \/ \E t \in Threads, ctx_error_raises \in BOOLEAN : ToolResume(t, ctx_error_raises)

SpecHandlers == InitHandlers /\ [][NextHandlers]_vars

\* The names server.py imports from mcp_kafka.tools (lines 12-25).
ServerImports == Tools \cup {"list_clusters"}

\* The names tools.py defines.
ToolsModule == Tools

\* A tools module that defines list_clusters as well.
ToolsModuleWithListClusters == Tools \cup {"list_clusters"}

\* The process has started and has not yet imported mcp_kafka.server.
InitLife ==
    /\ core = [config |-> DEFAULT_CONFIG, kafka_admin_clients |-> <<>>]
    /\ handles = <<>>
    /\ phase = "import"
    /\ lastOp = Op("init", "", NoOut)
    /\ remote = [topics |-> {}, creates |-> 0, deletes |-> 0, alters |-> 0]
    /\ pc = [t \in Threads |-> "idle"]
    /\ tname = [t \in Threads |-> ""]
    /\ tlocal = [t \in Threads |-> 0]
    /\ tret = [t \in Threads |-> NoOut]
    /\ parse = [key |-> <<>>, text |-> <<>>, out |-> <<>>, done |-> FALSE]
    /\ topic_core = CoreObject

\* import mcp_kafka.server: `from mcp_kafka.tools import (list_clusters, ...)`
\* raises ImportError when the tools module lacks one of the names.
ImportServer(tools_module) ==
    /\ phase = "import"
    /\ IF ServerImports \subseteq tools_module
       THEN /\ phase' = "main"
            /\ lastOp' = Op("import", "", ReturnValue("module", <<>>))
       ELSE /\ phase' = "ImportError"
            /\ lastOp' = Op("import", "", Raise("ImportError"))
    /\ UNCHANGED <<parse, topic_core, core, handles, remote, ThreadVars>>

\* main(): core = Core.from_flags(); CoreManager.set_core(core); mcp.run(...).
\* An exception of Core(...) ends the process before set_core is called and
\* before the server runs: the registry stays what it was.
Main(configs) ==
    /\ phase = "main"
    /\ LET r == Core_init(configs)
       IN  /\ core' = IF r.out.kind = "return" THEN r.self ELSE core
           /\ lastOp' = Op("main", "", r.out)
           /\ phase' = IF r.out.kind = "raise" THEN "crashed" ELSE "running"
    /\ UNCHANGED <<parse, topic_core, handles, remote, ThreadVars>>

\* The server's life: the module is imported, main() builds the registry,
\* connections are requested, then the lifespan ends.
NextLife ==
    \/ \E m \in {ToolsModule, ToolsModuleWithListClusters} : ImportServer(m)
    \/ \E configs \in {c \in CoreConfigs : c.extra_configs = {}} : Main(configs)
    \/ \E n \in Names : KafkaAdminClient(n)
    \/ \E n \in Names : GetClusterConfig(n)
    \/ \E failing \in SUBSET Cached : server_lifespan(failing)

SpecLife == InitLife /\ [][NextLife]_vars

Spec == Init /\ [][Next]_vars

\* parse_value applied to every key and text within the bounds.
Texts == UNION {[1..n -> Alphabet] : n \in 0..MaxTextLen}

InitParse ==
    /\ core = [config |-> DEFAULT_CONFIG, kafka_admin_clients |-> <<>>]
    /\ handles = <<>>
    /\ phase = "running"
    /\ lastOp = Op("init", "", NoOut)
    /\ remote = [topics |-> {}, creates |-> 0, deletes |-> 0, alters |-> 0]
    /\ pc = [t \in Threads |-> "idle"]
    /\ tname = [t \in Threads |-> ""]
    /\ tlocal = [t \in Threads |-> 0]
    /\ tret = [t \in Threads |-> NoOut]
    /\ topic_core = CoreObject
    /\ parse \in {[key |-> k, text |-> t, out |-> <<>>, done |-> FALSE] :
                     k \in Keys, t \in Texts}

\* A call of parse_value(key, text).
ParseValue ==
    /\ ~parse.done
    /\ parse' = [parse EXCEPT !.out = parse_value(parse.key, parse.text),
                              !.done = TRUE]
    /\ UNCHANGED <<topic_core, core, handles, phase, lastOp, remote, pc, tname, tlocal, tret>>

NextParse == ParseValue

SpecParse == InitParse /\ [][NextParse]_vars

----------------------------------------------------------------------------
(* Core.kafka_admin_client called from several threads: one step per        *)
(* statement, the threads interleaving between the steps.  The method holds *)
(* no lock (core.py:197-211).                                               *)

\* A thread enters core.kafka_admin_client(n).
TCall(t, n) ==
    /\ pc[t] = "idle"
    /\ pc' = [pc EXCEPT ![t] = "l197"]
    /\ tname' = [tname EXCEPT ![t] = n]
    /\ tlocal' = [tlocal EXCEPT ![t] = 0]
    /\ tret' = [tret EXCEPT ![t] = NoOut]
    /\ UNCHANGED <<parse, topic_core, core, handles, phase, lastOp, remote>>

\* if cluster_name not in self._kafka_admin_clients:
TCheck(t) ==
    /\ pc[t] = "l197"
    /\ pc' = [pc EXCEPT ![t] =
                IF tname[t] \notin DictKeys(core.kafka_admin_clients)
                THEN "l198" ELSE "l211"]
    /\ UNCHANGED <<parse, topic_core, core, handles, phase, lastOp, remote, tname, tlocal, tret>>

\* config = self.get_cluster_config(cluster_name)
\* kafka_config = dict(...)
TConfig(t) ==
    /\ pc[t] = "l198"
    /\ LET config == get_cluster_config(core, tname[t])
       IN  IF config.kind = "raise"
           THEN /\ pc' = [pc EXCEPT ![t] = "done"]
                /\ tret' = [tret EXCEPT ![t] = config]
           ELSE IF kafka_config(config).kind = "raise"
           THEN /\ pc' = [pc EXCEPT ![t] = "done"]
                /\ tret' = [tret EXCEPT ![t] = kafka_config(config)]
           ELSE /\ pc' = [pc EXCEPT ![t] = "l209_new"]
                /\ tret' = tret
    /\ UNCHANGED <<parse, topic_core, core, handles, phase, lastOp, remote, tname, tlocal>>

\* KafkaAdminClient(**kafka_config), the right-hand side of line 209.
TConstruct(t) ==
    /\ pc[t] = "l209_new"
    /\ Len(handles) < MaxHandles
    /\ handles' = NewClient(handles, tname[t])
    /\ tlocal' = [tlocal EXCEPT ![t] = Len(handles')]
    /\ pc' = [pc EXCEPT ![t] = "l209_set"]
    /\ UNCHANGED <<parse, topic_core, core, phase, lastOp, remote, tname, tret>>

\* self._kafka_admin_clients[cluster_name] = <the new client>
TStore(t) ==
    /\ pc[t] = "l209_set"
    /\ core' = [core EXCEPT !.kafka_admin_clients = DictSet(@, tname[t], tlocal[t])]
    /\ pc' = [pc EXCEPT ![t] = "l211"]
    /\ UNCHANGED <<parse, topic_core, handles, phase, lastOp, remote, tname, tlocal, tret>>

\* return self._kafka_admin_clients[cluster_name]
TReturn(t) ==
    /\ pc[t] = "l211"
    /\ tret' = [tret EXCEPT ![t] =
                  IF tname[t] \in DictKeys(core.kafka_admin_clients)
                  THEN Return(DictGet(core.kafka_admin_clients, tname[t]))
                  ELSE Raise("KeyError")]
    /\ pc' = [pc EXCEPT ![t] = "done"]
    /\ UNCHANGED <<parse, topic_core, core, handles, phase, lastOp, remote, tname, tlocal>>

\* The caller takes the result and is free to call again.
TDone(t) ==
    /\ pc[t] = "done"
    /\ pc' = [pc EXCEPT ![t] = "idle"]
    /\ UNCHANGED <<parse, topic_core, core, handles, phase, lastOp, remote, tname, tlocal, tret>>

NextConc ==
    \/ \E t \in Threads, n \in Names : TCall(t, n)
    \/ \E t \in Threads : TCheck(t)
    \/ \E t \in Threads : TConfig(t)
    \/ \E t \in Threads : TConstruct(t)
    \/ \E t \in Threads : TStore(t)
    \/ \E t \in Threads : TReturn(t)
    \/ \E t \in Threads : TDone(t)

SpecConc == Init /\ [][NextConc]_vars

----------------------------------------------------------------------------
(* KafkaTopic.create_topic(name, if_not_exists=True) called from several     *)
(* threads on one KafkaTopic: one step per request to the cluster           *)
(* (topic.py:32 and topic.py:44), the threads interleaving between them.    *)

\* KafkaTopic(core) on a Core object.
InitRace ==
    /\ core = [config |-> DEFAULT_CONFIG, kafka_admin_clients |-> <<>>]
    /\ handles = <<>>
    /\ phase = "running"
    /\ lastOp = Op("init", "", NoOut)
    /\ remote \in {[topics |-> T, creates |-> 0, deletes |-> 0, alters |-> 0] :
                      T \in RemoteTopicChoices}
    /\ pc = [t \in Threads |-> "idle"]
    /\ tname = [t \in Threads |-> ""]
    /\ tlocal = [t \in Threads |-> 0]
    /\ tret = [t \in Threads |-> NoOut]
    /\ parse = [key |-> <<>>, text |-> <<>>, out |-> <<>>, done |-> FALSE]
    /\ topic_core = CoreObject

\* A thread enters create_topic(name, if_not_exists=True).
CTCall(t, name) ==
    /\ pc[t] = "idle"
    /\ pc' = [pc EXCEPT ![t] = "l32"]
    /\ tname' = [tname EXCEPT ![t] = name]
    /\ tret' = [tret EXCEPT ![t] = NoOut]
    /\ UNCHANGED <<parse, topic_core, core, handles, phase, lastOp, remote, tlocal>>

\* existing_topics = self._core.kafka_admin_client.list_topics()
\* if name in existing_topics: return {}
CTCheck(t) ==
    /\ pc[t] = "l32"
    /\ IF ~HasAttr(topic_core.kafka_admin_client, "list_topics")
       THEN /\ tret' = [tret EXCEPT ![t] = Raise("AttributeError")]
            /\ pc' = [pc EXCEPT ![t] = "done"]
       ELSE IF tname[t] \in remote.topics
            THEN /\ tret' = [tret EXCEPT ![t] = ReturnDict({})]
                 /\ pc' = [pc EXCEPT ![t] = "done"]
            ELSE /\ tret' = tret
                 /\ pc' = [pc EXCEPT ![t] = "l44"]
    /\ UNCHANGED <<parse, topic_core, core, handles, phase, lastOp, remote, tname, tlocal>>

\* response = self._core.kafka_admin_client.create_topics([topic], ...)
\* return response
CTCreate(t) ==
    /\ pc[t] = "l44"
    /\ LET r == IF ~HasAttr(topic_core.kafka_admin_client, "create_topics")
                THEN [remote |-> remote, out |-> Raise("AttributeError")]
                ELSE RemoteCreateTopics(remote, tname[t], FALSE)
       IN  /\ remote' = r.remote
           /\ tret' = [tret EXCEPT ![t] = r.out]
    /\ pc' = [pc EXCEPT ![t] = "done"]
    /\ UNCHANGED <<parse, topic_core, core, handles, phase, lastOp, tname, tlocal>>

NextRace ==
    \/ \E t \in Threads, name \in Topics : CTCall(t, name)
    \/ \E t \in Threads : CTCheck(t)
    \/ \E t \in Threads : CTCreate(t)
    \/ \E t \in Threads : TDone(t)

SpecRace == InitRace /\ [][NextRace]_vars

----------------------------------------------------------------------------
(* Properties of the registry *)

\* The number of clients constructed so far for cluster n.
Constructed(hs, n) == Cardinality({h \in DOMAIN hs : hs[h].name = n})

IsCloseOp(o) == o.op \in {"close", "server_lifespan"}

\* On every registry that Core(...) returns, 'clusters' is not a key of the
\* configuration: no name is configured, no client is ever constructed and
\* the cache stays empty.
RegistryStaysEmpty ==
    /\ clusters(core) = {}
    /\ handles = <<>>
    /\ core.kafka_admin_clients = <<>>

\* No create request reaches the cluster: every KafkaTopic call that needs
\* the client raises AttributeError before it.
NoCreateRequest == remote.creates = 0

\* C1: callers that invoke kafka_admin_client concurrently for a name that
\* is not cached construct at most one client for the name, and all of
\* them receive the same handle.  (No close runs under SpecConc, so one
\* construction per name is all a serialized registry would ever make.)
C1_OneConstructionPerName ==
    /\ \A n \in Names : Constructed(handles, n) <= 1
    /\ \A t, u \in Threads :
          (/\ pc[t] = "done" /\ pc[u] = "done"
           /\ tname[t] = tname[u]
           /\ tret[t].kind = "return" /\ tret[u].kind = "return")
          => tret[t].handle = tret[u].handle

\* C2: with no close in between, the first kafka_admin_client call for a
\* configured name constructs exactly one client, for that name only, and
\* caches it; a call for a cached name returns the cached handle and
\* constructs nothing; the handle returned for a name was built for it.
C2_FirstConstructsLaterReuse ==
    [][\A n \in Names :
          (lastOp'.op = "kafka_admin_client" /\ lastOp'.name = n
              /\ n \in clusters(core))
          => /\ lastOp'.out.kind = "return"
             /\ lastOp'.out.handle \in DOMAIN handles'
             /\ handles'[lastOp'.out.handle].name = n
             /\ lastOp'.out.handle = DictGet(core'.kafka_admin_clients, n)
             /\ IF n \in DictKeys(core.kafka_admin_clients)
                THEN /\ handles' = handles
                     /\ core' = core
                     /\ lastOp'.out.handle = DictGet(core.kafka_admin_clients, n)
                ELSE /\ \A m \in Names :
                          Constructed(handles', m) =
                             Constructed(handles, m) + (IF m = n THEN 1 ELSE 0)
                     /\ lastOp'.out.handle \notin DOMAIN handles
                     /\ DictKeys(core'.kafka_admin_clients) =
                           DictKeys(core.kafka_admin_clients) \cup {n}
                     /\ \A m \in DictKeys(core.kafka_admin_clients) :
                           DictGet(core'.kafka_admin_clients, m) =
                              DictGet(core.kafka_admin_clients, m)
      ]_vars

\* C3: a close in which every client's close() succeeds invokes close()
\* exactly once on each client that was cached, on no other client, and
\* leaves the cache empty.
C3_CloseEachOnceAndClear ==
    [][(IsCloseOp(lastOp') /\ lastOp'.out.kind = "return")
          => /\ core'.kafka_admin_clients = <<>>
             /\ DOMAIN handles' = DOMAIN handles
             /\ \A h \in DOMAIN handles :
                   handles'[h].closeCalls =
                      handles[h].closeCalls + (IF h \in Cached THEN 1 ELSE 0)
      ]_vars

\* A successful close has emptied a cache of two clients.
C3_Witness ==
    /\ lastOp.op = "close" /\ lastOp.out.kind = "return"
    /\ core.kafka_admin_clients = <<>>
    /\ Len(handles) = 2
    /\ handles[1].name # handles[2].name
    /\ \A h \in DOMAIN handles : handles[h].closeCalls = 1

\* C4: when one client's close() fails, close still invokes close() on
\* every other cached client, still clears the cache, and returns.
C4_CloseToleratesFailure ==
    IsCloseOp(lastOp)
       => /\ lastOp.out.kind = "return"
          /\ core.kafka_admin_clients = <<>>
          /\ \A h \in DOMAIN handles : handles[h].closeCalls >= 1

\* C5: once the server has shut down, every client ever constructed has
\* been closed, and none more than once.
C5_AllClosedOnceAtShutdown ==
    phase = "stopped"
       => \A h \in DOMAIN handles : handles[h].closeCalls = 1

C7_UnknownNameRaises ==
    [][\A n \in Names :
          (lastOp'.op \in {"get_cluster_config", "kafka_admin_client"}
              /\ lastOp'.name = n /\ n \notin clusters(core))
          => /\ lastOp'.out = Raise("KeyError")
             /\ core' = core
             /\ handles' = handles
             /\ phase' = "running"
      ]_vars

\* kafka_admin_client("ghost") has raised KeyError and built no client.
C7_Witness ==
    /\ lastOp.op = "kafka_admin_client" /\ lastOp.name = "ghost"
    /\ lastOp.out = Raise("KeyError")
    /\ "ghost" \notin clusters(core)
    /\ handles = <<>>
    /\ core.kafka_admin_clients = <<>>

----------------------------------------------------------------------------
(* Properties of the tool handlers and of the topic facade *)

\* C8: every invocation of a tool handler returns a dict holding exactly
\* one of the keys data and error; no exception leaves the handler.
C8_ToolReturnsDataOrError ==
    lastOp.op = "tool"
       => /\ lastOp.out.kind = "return"
          /\ lastOp.out.fields \in {{"data"}, {"error"}}

\* C9: create_topic with if_not_exists for a topic the cluster has returns
\* an empty result and sends no create request; in every other case it
\* sends exactly one create request.
C9_CreateTopicIfNotExists ==
    [][lastOp'.op = "create_topic"
          => IF "if_not_exists" \in lastOp'.flags /\ lastOp'.name \in remote.topics
             THEN /\ lastOp'.out = ReturnDict({})
                  /\ remote'.creates = remote.creates
             ELSE remote'.creates = remote.creates + 1
      ]_vars

\* C10: delete_topics with dry_run sends no delete request, returns one
\* (topic, 0) entry per topic asked for, in order, and leaves the
\* cluster's topics as they were.
C10_DeleteDryRun ==
    [][(lastOp'.op = "delete_topics" /\ "dry_run" \in lastOp'.flags)
          => /\ lastOp'.out.kind = "return"
             /\ lastOp'.out.value = "DeleteTopicsResponse_v3"
             /\ Len(lastOp'.out.codes) = Len(lastOp'.topics)
             /\ \A i \in DOMAIN lastOp'.topics :
                   lastOp'.out.codes[i] = <<lastOp'.topics[i], 0>>
             /\ remote'.deletes = remote.deletes
             /\ remote'.topics = remote.topics
      ]_vars

\* A dry run of delete_topics on two topics, one of them on the cluster.
C10_Witness ==
    /\ lastOp.op = "delete_topics" /\ "dry_run" \in lastOp.flags
    /\ lastOp.topics = <<"a", "b">>
    /\ lastOp.out.codes = <<<<"a", 0>>, <<"b", 0>>>>
    /\ remote.topics = {"a"}

----------------------------------------------------------------------------
(* Properties of the cache after a close *)

\* C15: every client held in the cache is open (close() has never been
\* invoked on it), so kafka_admin_client never returns a client on which
\* close() has been invoked, also after a close that a failure cut short.
C15_CacheHoldsOpenClients ==
    /\ \A h \in Cached : handles[h].closeCalls = 0
    /\ (lastOp.op = "kafka_admin_client" /\ lastOp.out.kind = "return")
          => handles[lastOp.out.handle].closeCalls = 0

----------------------------------------------------------------------------
(* Properties of alter_topic and describe_topics *)

\* C11: alter_topic with dry_run sends no alter request and leaves the
\* cluster as it was; it returns, without raising, one per-resource result
\* for the topic: error code 0 when the topic is on the cluster, a nonzero
\* error code when it is not.
C11_AlterDryRun ==
    [][(lastOp'.op = "alter_topic" /\ "dry_run" \in lastOp'.flags)
          => /\ remote' = remote
             /\ lastOp'.out.kind = "return"
             /\ Len(lastOp'.out.codes) = 1
             /\ lastOp'.out.codes[1][1] = lastOp'.name
             /\ (lastOp'.out.codes[1][2] = 0) <=> (lastOp'.name \in remote.topics)
      ]_vars

\* The names that occur in a list of topic names.
NamesOf(list) == {list[i] : i \in DOMAIN list}

\* C12: describe_topics for n names makes ceil(n/10) remote describe
\* calls, none with more than 10 names, which together carry every name
\* asked for and no other.
C12_DescribeInBatchesOfTen ==
    lastOp.op = "describe_topics"
       => LET n == Len(lastOp.topics)
              b == lastOp.out.batches
          IN  /\ Len(b) = (n + 9) \div 10
              /\ \A i \in DOMAIN b : Len(b[i]) <= 10
              /\ UNION {NamesOf(b[i]) : i \in DOMAIN b} = NamesOf(lastOp.topics)


----------------------------------------------------------------------------
(* C13 *)

\* The reference scanner, stated position by position on the text.
\* The first occurrence of key, 0 when there is none.
RefKeyPos(key, text) ==
    LET occ == {i \in 1..Len(text) :
                  /\ i + Len(key) - 1 <= Len(text)
                  /\ SubSeq(text, i, i + Len(key) - 1) = key}
    IN  IF occ = {} THEN 0 ELSE CHOOSE i \in occ : \A j \in occ : i <= j

\* The first '=' after the first occurrence of key, 0 when there is none.
RefEqPos(key, text) ==
    LET kp == RefKeyPos(key, text)
        eqs == {i \in 1..Len(text) : i >= kp + Len(key) /\ text[i] = "="}
    IN  IF kp = 0 \/ eqs = {} THEN 0 ELSE CHOOSE i \in eqs : \A j \in eqs : i <= j

\* The opening quote: the first character after the '=' that is not
\* whitespace, when it is a quote character; 0 otherwise.
RefOpenPos(key, text) ==
    LET ep == RefEqPos(key, text)
        rest == {i \in 1..Len(text) : i > ep /\ text[i] # " "}
    IN  IF ep = 0 \/ rest = {}
        THEN 0
        ELSE LET o == CHOOSE i \in rest : \A j \in rest : i <= j
             IN  IF text[o] \in {"\"", "'"} THEN o ELSE 0

\* The next occurrence, after position o, of the quote character at o that
\* no backslash precedes; 0 when there is none.
RefClosePos(text, o) ==
    LET ends == {j \in 1..Len(text) :
                   j > o /\ text[j] = text[o] /\ text[j - 1] # "\\"}
    IN  IF ends = {} THEN 0 ELSE CHOOSE j \in ends : \A k \in ends : j <= k

\* The characters at positions o+1..last, every backslash that the quote
\* character follows left out.
RefFolded(text, o, last) ==
    LET kept == {m \in (o + 1)..last :
                   ~(text[m] = "\\" /\ m + 1 <= last /\ text[m + 1] = text[o])}
        nth(n) == CHOOSE m \in kept : Cardinality({x \in kept : x <= m}) = n
    IN  [n \in 1..Cardinality(kept) |-> text[nth(n)]]

\* The value the reference scanner of the claim returns.
RefParseValue(key, text) ==
    LET o == RefOpenPos(key, text)
    IN  IF o = 0
        THEN <<>>
        ELSE LET c == RefClosePos(text, o)
             IN  IF c = 0 THEN <<>> ELSE RefFolded(text, o, c - 1)

\* C13: parse_value(key, text) returns what the reference scanner returns:
\* the characters between the opening quote and the next unescaped
\* occurrence of the same quote character, backslash-quote pairs folded,
\* and the empty string when the key, the '=', the opening quote or the
\* terminating unescaped quote is absent.
C13_ParseValueAgreesWithReference ==
    parse.done => parse.out = RefParseValue(parse.key, parse.text)

\* On every text in which the value is terminated, and on every text in
\* which the key, the '=' or the opening quote is absent, parse_value and
\* the reference scanner agree; on an unterminated value parse_value
\* returns the characters up to the end of the text, folded.
ParseValueAgreesUpToTermination ==
    parse.done =>
        LET o == RefOpenPos(parse.key, parse.text)
        IN  IF o # 0 /\ RefClosePos(parse.text, o) = 0
            THEN parse.out = RefFolded(parse.text, o, Len(parse.text))
            ELSE parse.out = RefParseValue(parse.key, parse.text)

\* C14: a create_topic(if_not_exists=True) sends its create request only
\* while the topic is not on the cluster, and so never ends in a
\* topic-already-exists error, whatever the other invocations did between
\* its existence check and its create request.
C14_IfNotExistsNeverAlreadyExists ==
    [][\A t \in Threads :
          (pc[t] = "l44" /\ pc'[t] = "done")
             => /\ tname[t] \notin remote.topics
                /\ ~(tret'[t].kind = "raise"
                      /\ tret'[t].exc = "TopicAlreadyExistsError")
      ]_vars

====
